---- MODULE Spec2Model ----
(***************************************************************************)
(* dir2module: one run of main(), from argument parsing to process exit.   *)
(* Strings that the program takes apart (file names, N:S:V:C:A, N:S) are   *)
(* sequences of one-character strings; messages that are only printed are  *)
(* records holding the fixed text and the values formatted into it.        *)
(***************************************************************************)
EXTENDS Integers, Sequences, FiniteSets

VARIABLES
    args,            \* argparse namespace: nsvca, requires, force, dir, pkglist
    fs,              \* what the --dir walk or the --pkglist file yields
    pc,              \* position in main()
    nsvca,           \* result of parse_nsvca
    packages,        \* main: packages
    requires,        \* main: requires (set of <<name, stream>>, unique names)
    licenses,        \* main: licenses
    i,               \* index of the comprehension / for loop in progress
    missing_labels,  \* main: missing_labels
    module,          \* the Module object, None before construction
    nevras,          \* dumps: package_nevras(self.packages)
    yaml,            \* main: yaml
    stdout,          \* lines printed to standard output
    stderr,          \* lines written to the error stream
    exitcode,        \* process exit status, -1 while running
    raised,          \* the exception that ended main(), None if none
    opened,          \* per path: how often package_header opened it
    discovered,      \* package discovery (walk or list file read) has run
    dumps_called     \* Module.dumps has been entered

vars == <<args, fs, pc, nsvca, packages, requires, licenses, i, missing_labels,
          module, nevras, yaml, stdout, stderr, exitcode, raised, opened,
          discovered, dumps_called>>

-----------------------------------------------------------------------------
(* Bounds of the model *)

\* longest directory listing / package list file
MaxPkgs == 3

-----------------------------------------------------------------------------
(* Python values *)

\* the None object; no character sequence equals it
None == <<"None">>

Range(s) == {s[k] : k \in DOMAIN s}

Max(S) == CHOOSE x \in S : \A y \in S : y <= x
Min(S) == CHOOSE x \in S : \A y \in S : x <= y

Digits == <<"0", "1", "2", "3", "4", "5", "6", "7", "8", "9">>

DigitVal(c) == (CHOOSE k \in DOMAIN Digits : Digits[k] = c) - 1

\* the strings int() accepts among the inputs of the model: decimal digits
IsInt(s) == s # <<>> /\ \A k \in DOMAIN s : s[k] \in Range(Digits)

\* int(s)
RECURSIVE int(_)
int(s) == IF Len(s) = 1 THEN DigitVal(s[1])
          ELSE 10 * int(SubSeq(s, 1, Len(s) - 1)) + DigitVal(s[Len(s)])

\* str(n) for n >= 0, as "{}".format(n) renders it
RECURSIVE str(_)
str(n) == IF n < 10 THEN <<Digits[n + 1]>>
          ELSE str(n \div 10) \o <<Digits[(n % 10) + 1]>>

\* s.endswith(suffix)
endswith(s, suffix) ==
    /\ Len(s) >= Len(suffix)
    /\ SubSeq(s, Len(s) - Len(suffix) + 1, Len(s)) = suffix

\* s.split(sep) for a one-character sep
RECURSIVE split(_, _)
split(s, sep) ==
    LET at == {k \in DOMAIN s : s[k] = sep}
    IN  IF at = {} THEN <<s>>
        ELSE <<SubSeq(s, 1, Min(at) - 1)>>
                 \o split(SubSeq(s, Min(at) + 1, Len(s)), sep)

\* os.path.basename(path)
basename(path) ==
    LET at == {k \in DOMAIN path : path[k] = "/"}
    IN  IF at = {} THEN path ELSE SubSeq(path, Max(at) + 1, Len(path))

RPM == <<".", "r", "p", "m">>
SRC_RPM == <<".", "s", "r", "c", ".", "r", "p", "m">>

-----------------------------------------------------------------------------
(* hawkey's NEVRA matcher, as package2nevra calls it *)

\* the epoch of a Nevra whose string has none (Python sees None)
EPOCH_NOT_SET == -1

NoChar(s, cs) == \A k \in DOMAIN s : s[k] \notin cs

\* the fields of pattern cut at the hyphens h1 < h2 and the dot d
NevraAt(pattern, h1, h2, d) ==
    LET mid == SubSeq(pattern, h1 + 1, h2 - 1)
        col == {k \in DOMAIN mid : mid[k] = ":"}
        c   == IF col = {} THEN 0 ELSE Min(col)
        E   == SubSeq(mid, 1, c - 1)
    IN  [name    |-> SubSeq(pattern, 1, h1 - 1),
         estr    |-> E,
         hasE    |-> c > 0,
         epoch   |-> IF c > 0 /\ IsInt(E) THEN int(E) ELSE EPOCH_NOT_SET,
         version |-> SubSeq(mid, c + 1, Len(mid)),
         release |-> SubSeq(pattern, h2 + 1, d - 1),
         arch    |-> SubSeq(pattern, d + 1, Len(pattern))]

\* Subject(pattern).get_nevra_possibilities(forms=[hawkey.FORM_NEVRA]):
\* name-[epoch:]version-release.arch, where name holds no ':', version and
\* release hold no '-' or ':', arch holds no '-', ':' or '.', none is empty
get_nevra_possibilities(pattern) ==
    LET cuts == {t \in (DOMAIN pattern) \X (DOMAIN pattern) \X (DOMAIN pattern) :
                    /\ t[1] < t[2] /\ t[2] < t[3]
                    /\ pattern[t[1]] = "-" /\ pattern[t[2]] = "-"
                    /\ pattern[t[3]] = "."}
    IN  {nevra \in {NevraAt(pattern, t[1], t[2], t[3]) : t \in cuts} :
            /\ nevra.name # <<>> /\ NoChar(nevra.name, {":", "/"})
            /\ nevra.hasE => IsInt(nevra.estr)
            /\ nevra.version # <<>> /\ NoChar(nevra.version, {"-", ":", "/"})
            /\ nevra.release # <<>> /\ NoChar(nevra.release, {"-", ":", "/"})
            /\ nevra.arch # <<>> /\ NoChar(nevra.arch, {"-", ":", ".", "/"})}

-----------------------------------------------------------------------------
(* Exceptions and results *)

\* an optional value is a sequence of length 0 (absent) or 1 (present)
Absent == <<>>
Present(x) == <<x>>

Exception(type, text, fmt) == [type |-> type, text |-> text, fmt |-> fmt]

\* the classes an exception of the given type is an instance of
Bases(type) ==
    CASE type = "FileNotFoundError" -> {"FileNotFoundError", "OSError", "Exception"}
      [] type = "GLib.Error"        -> {"GLib.Error", "RuntimeError", "Exception"}
      [] OTHER                      -> {type, "Exception"}

\* the outcome of a call: a returned value or a raised exception
Returns(v) == [raises |-> FALSE, value |-> Present(v), exc |-> Absent]
Raises(e)  == [raises |-> TRUE, value |-> Absent, exc |-> Present(e)]

-----------------------------------------------------------------------------
(* The package files of the model *)

Pkg_plain   == <<"a", "-", "1", "-", "3", ".", "x">> \o RPM
Pkg_hyphen  == <<"d", "/", "a", "-", "b", "-", "1", "-", "3", ".", "x">> \o RPM
Pkg_epoch   == <<"a", "-", "2", ":", "1", "-", "3", ".", "x">> \o RPM
Pkg_noparse == <<"a">> \o RPM
Pkg_noext   == <<"a", "-", "1", "-", "3", ".", "x">>
Pkg_source  == <<"a", "-", "1", "-", "3">> \o SRC_RPM
Pkg_corrupt == <<"c", "-", "1", "-", "3", ".", "x">> \o RPM

Paths == {Pkg_plain, Pkg_hyphen, Pkg_epoch, Pkg_noparse, Pkg_noext,
          Pkg_source, Pkg_corrupt}

\* what is on disk at each path: a header, a file that is no package, or
\* nothing that can be opened
OnDisk(path) ==
    CASE path = Pkg_plain   -> [kind |-> "rpm", license |-> "MIT", modularitylabel |-> "m:s:1:c"]
      [] path = Pkg_hyphen  -> [kind |-> "rpm", license |-> "GPLv2", modularitylabel |-> ""]
      [] path = Pkg_epoch   -> [kind |-> "rpm", license |-> "MIT", modularitylabel |-> ""]
      [] path = Pkg_noparse -> [kind |-> "rpm", license |-> "GPLv2", modularitylabel |-> "m:s:1:c"]
      [] path = Pkg_noext   -> [kind |-> "rpm", license |-> "BSD", modularitylabel |-> "m:s:1:c"]
      [] path = Pkg_source  -> [kind |-> "unopenable", license |-> "", modularitylabel |-> ""]
      [] path = Pkg_corrupt -> [kind |-> "garbage", license |-> "", modularitylabel |-> ""]

\* sequences over S of length at most n
SeqsUpTo(S, n) == UNION {[1..k -> S] : k \in 0..n}

Injective(s) == \A j, k \in DOMAIN s : s[j] = s[k] => j = k

-----------------------------------------------------------------------------
(* Command lines of the model *)

Nsvca_ok      == <<"n", ":", "s", ":", "1", "2", ":", "c", ":", "a">>
Nsvca_four    == <<"n", ":", "s", ":", "1", "2", ":", "c">>
Nsvca_six     == <<"n", ":", "s", ":", "1", "2", ":", "c", ":", "a", ":", "z">>
Nsvca_version == <<"n", ":", "s", ":", "v", ":", "c", ":", "a">>

Dep_ok    == <<"p", ":", "e">>
Dep_again == <<"p", ":", "f">>
Dep_one   == <<"q">>
Dep_three == <<"q", ":", "e", ":", "x">>

\* args.requires: None without -r (given = FALSE), else the appended list
NoRequires == [given |-> FALSE, list |-> <<>>]
Requires(l) == [given |-> TRUE, list |-> l]

CommandLines ==
    [nsvca    : {Nsvca_ok, Nsvca_four, Nsvca_six, Nsvca_version},
     requires : {NoRequires, Requires(<<Dep_ok, Dep_again>>),
                 Requires(<<Dep_ok, Dep_one>>), Requires(<<Dep_three>>)},
     force    : BOOLEAN,
     dir      : BOOLEAN]

\* the file system under the --dir or --pkglist argument: the files a walk
\* meets or the lines of the list file, and whether the list file opens
FileSystems ==
    [listing : SeqsUpTo(Paths, MaxPkgs), readable : BOOLEAN]

-----------------------------------------------------------------------------
(* The functions of dir2module.py *)

\* find_packages(path): the *.rpm files of the walk that are no source package
RECURSIVE find_packages(_)
find_packages(listing) ==
    IF listing = <<>> THEN <<>>
    ELSE LET filename == basename(Head(listing))
         IN  IF endswith(filename, RPM) /\ ~endswith(filename, SRC_RPM)
             THEN <<Head(listing)>> \o find_packages(Tail(listing))
             ELSE find_packages(Tail(listing))

\* find_packages_in_file(path): the lines of the list file
find_packages_in_file(files) ==
    IF files.readable THEN Returns(files.listing)
    ELSE Raises(Exception("FileNotFoundError",
                          "[Errno 2] No such file or directory: {}", <<>>))

\* the formatted NEVRA of package2nevra's return statement
FormatNevra(nevra) ==
    nevra.name \o <<"-">>
        \o str(IF nevra.epoch = EPOCH_NOT_SET THEN 0 ELSE nevra.epoch)
        \o <<":">> \o nevra.version \o <<"-">> \o nevra.release
        \o <<".">> \o nevra.arch

\* package2nevra(path)
package2nevra(path) ==
    LET file_name == basename(path)
        found     == get_nevra_possibilities(file_name)
    IN  IF ~endswith(file_name, RPM)
        THEN Raises(Exception("ValueError",
                              "File name doesn't end with '.rpm': {}", <<path>>))
        ELSE IF found = {} THEN Returns(None)
        ELSE Returns(FormatNevra(CHOOSE nevra \in found : TRUE))

\* package_nevras building a list instead of a set: every entry of the input
\* stays apart from the others
package_nevras_AsList(pkgs) ==
    LET bad == {k \in DOMAIN pkgs : package2nevra(pkgs[k]).raises}
    IN  IF bad # {} THEN Raises(package2nevra(pkgs[Min(bad)]).exc[1])
        ELSE Returns({<<k, package2nevra(pkgs[k]).value[1]>> : k \in DOMAIN pkgs})

\* package_nevras(packages): the set comprehension, which stops at the first
\* package whose package2nevra raises
package_nevras(pkgs) ==
    LET bad == {k \in DOMAIN pkgs : package2nevra(pkgs[k]).raises}
    IN  IF bad # {} THEN Raises(package2nevra(pkgs[Min(bad)]).exc[1])
        ELSE Returns({package2nevra(pkgs[k]).value[1] : k \in DOMAIN pkgs})

\* package_header(path)
package_header(path) ==
    LET file == OnDisk(path)
    IN  CASE file.kind = "unopenable" ->
                 Raises(Exception("FileNotFoundError",
                                  "[Errno 2] No such file or directory: {}", <<path>>))
          [] file.kind = "garbage" ->
                 Raises(Exception("rpm.error", "error reading package header", <<>>))
          [] OTHER -> Returns(file)

\* package_license(package)
package_license(package) ==
    LET header == package_header(package)
    IN  IF header.raises THEN header ELSE Returns(header.value[1].license)

\* package_has_modularity_label with the test of the label dropped
package_has_modularity_label_AlwaysSet(package) ==
    LET header == package_header(package)
    IN  IF header.raises THEN header ELSE Returns(TRUE)

\* package_has_modularity_label with the test of the label negated
package_has_modularity_label_Negated(package) ==
    LET header == package_header(package)
    IN  IF header.raises THEN header
        ELSE Returns(header.value[1].modularitylabel = "")

\* package_has_modularity_label(package)
package_has_modularity_label(package) ==
    LET header == package_header(package)
    IN  IF header.raises THEN header
        ELSE Returns(header.value[1].modularitylabel # "")

\* parse_nsvca rejecting only too few fields
parse_nsvca_AtLeastFive(text) ==
    LET fields == split(text, ":")
    IN  IF Len(fields) < 5
        THEN Raises(Exception("ValueError", "N:S:V:C:A in unexpected format", <<>>))
        ELSE IF ~IsInt(fields[3])
        THEN Raises(Exception("ValueError",
                              "invalid literal for int() with base 10: {}",
                              <<fields[3]>>))
        ELSE Returns([name |-> fields[1], stream |-> fields[2],
                      version |-> int(fields[3]), context |-> fields[4],
                      arch |-> fields[5]])

\* parse_nsvca(nsvca)
parse_nsvca(text) ==
    LET fields == split(text, ":")
    IN  IF Len(fields) # 5
        THEN Raises(Exception("ValueError", "N:S:V:C:A in unexpected format", <<>>))
        ELSE IF ~IsInt(fields[3])
        THEN Raises(Exception("ValueError",
                              "invalid literal for int() with base 10: {}",
                              <<fields[3]>>))
        ELSE Returns([name |-> fields[1], stream |-> fields[2],
                      version |-> int(fields[3]), context |-> fields[4],
                      arch |-> fields[5]])

\* dict(pairs): the last pair of a key wins
dict(pairs) ==
    {<<pairs[k][1], pairs[k][2]>> : k \in
        {j \in DOMAIN pairs : \A l \in DOMAIN pairs :
            l > j => pairs[l][1] # pairs[j][1]}}

\* parse_dependencies(deps)
parse_dependencies(deps) ==
    IF ~deps.given THEN Returns({})
    ELSE LET pairs == [k \in DOMAIN deps.list |-> split(deps.list[k], ":")]
             bad   == {k \in DOMAIN pairs : Len(pairs[k]) # 2}
         IN  IF bad # {}
             THEN Raises(Exception("ValueError",
                     "dictionary update sequence element has length {}; 2 is required",
                     <<str(Len(pairs[Min(bad)]))>>))
             ELSE Returns(dict(pairs))

\* the message of the loop at main's marker check, as printed
LabelMessage(force, package) ==
    [label |-> IF force THEN "ERROR: " ELSE "WARNING: ",
     text  |-> "RPM does not have modularitylabel header set: {}",
     fmt   |-> <<package>>]

\* Module(...): the descriptor main builds
Module(n, summary, description, module_license, lics, pkgs, reqs) ==
    [name |-> n.name, stream |-> n.stream, version |-> n.version,
     context |-> n.context, arch |-> n.arch, summary |-> summary,
     description |-> description, module_license |-> module_license,
     licenses |-> lics, packages |-> pkgs, requires |-> reqs]

\* the module stream dumps() fills before it is rendered
ModuleStream(m, artifacts) ==
    [name |-> m.name, stream |-> m.stream, version |-> m.version,
     context |-> m.context, summary |-> m.summary,
     description |-> m.description, module_licenses |-> {m.module_license},
     content_licenses |-> m.licenses, rpm_artifacts |-> artifacts,
     dependencies |-> m.requires]

-----------------------------------------------------------------------------
(* The run: main() under the try/except of the script *)

Summary == "summary"
DefaultDescription == "This module has been generated using dir2module tool"
DefaultLicense == "MIT"

Init ==
    /\ args \in CommandLines
    /\ fs \in FileSystems
    /\ args.dir => fs.readable /\ Injective(fs.listing)
    /\ pc = "parse_nsvca"
    /\ nsvca = Absent
    /\ packages = <<>>
    /\ requires = {}
    /\ licenses = {}
    /\ i = 1
    /\ missing_labels = <<>>
    /\ module = Absent
    /\ nevras = {}
    /\ yaml = Absent
    /\ stdout = <<>>
    /\ stderr = <<>>
    /\ exitcode = -1
    /\ raised = Absent
    /\ opened = [p \in Paths |-> 0]
    /\ discovered = FALSE
    /\ dumps_called = FALSE

\* the except clause of the script catches these
Caught(e) == Bases(e.type) \cap {"RuntimeError", "ValueError"} # {}

\* what reaches the error stream when e leaves main(): the handler's line, or
\* the interpreter's traceback for an exception the handler does not catch
ErrorLines(e) ==
    IF Caught(e)
    THEN <<[text |-> "Error: {0}", exc |-> e]>>
    ELSE <<[text |-> "Traceback (most recent call last):", exc |-> e],
           [text |-> "{type}: {0}", exc |-> e]>>

\* e leaves main(): the process writes ErrorLines(e) and exits with status 1
Abort(e) ==
    /\ raised' = Present(e)
    /\ stderr' = stderr \o ErrorLines(e)
    /\ exitcode' = 1
    /\ pc' = "exit"

ParseNsvca ==
    /\ pc = "parse_nsvca"
    /\ LET r == parse_nsvca(args.nsvca)
       IN  IF r.raises
           THEN Abort(r.exc[1]) /\ UNCHANGED nsvca
           ELSE /\ nsvca' = r.value
                /\ pc' = "find_packages"
                /\ UNCHANGED <<raised, stderr, exitcode>>
    /\ UNCHANGED <<args, fs, packages, requires, licenses, i, missing_labels,
                   module, nevras, yaml, stdout, opened, discovered,
                   dumps_called>>

FindPackages ==
    /\ pc = "find_packages"
    /\ args.dir
    /\ packages' = find_packages(fs.listing)
    /\ discovered' = TRUE
    /\ pc' = "parse_dependencies"
    /\ UNCHANGED <<args, fs, nsvca, requires, licenses, i, missing_labels,
                   module, nevras, yaml, stdout, stderr, exitcode, raised,
                   opened, dumps_called>>

FindPackagesInFile ==
    /\ pc = "find_packages"
    /\ ~args.dir
    /\ discovered' = TRUE
    /\ LET r == find_packages_in_file(fs)
       IN  IF r.raises
           THEN Abort(r.exc[1]) /\ UNCHANGED packages
           ELSE /\ packages' = r.value[1]
                /\ pc' = "parse_dependencies"
                /\ UNCHANGED <<raised, stderr, exitcode>>
    /\ UNCHANGED <<args, fs, nsvca, requires, licenses, i, missing_labels,
                   module, nevras, yaml, stdout, opened, dumps_called>>

ParseDependencies ==
    /\ pc = "parse_dependencies"
    /\ LET r == parse_dependencies(args.requires)
       IN  IF r.raises
           THEN Abort(r.exc[1]) /\ UNCHANGED requires
           ELSE /\ requires' = r.value[1]
                /\ pc' = "licenses"
                /\ UNCHANGED <<raised, stderr, exitcode>>
    /\ UNCHANGED <<args, fs, nsvca, packages, licenses, i, missing_labels,
                   module, nevras, yaml, stdout, opened, discovered,
                   dumps_called>>

\* one element of the set comprehension that builds licenses
PackageLicense ==
    /\ pc = "licenses"
    /\ i <= Len(packages)
    /\ opened' = [opened EXCEPT ![packages[i]] = @ + 1]
    /\ LET r == package_license(packages[i])
       IN  IF r.raises
           THEN Abort(r.exc[1]) /\ UNCHANGED <<licenses, i>>
           ELSE /\ licenses' = licenses \cup {r.value[1]}
                /\ i' = i + 1
                /\ UNCHANGED <<pc, raised, stderr, exitcode>>
    /\ UNCHANGED <<args, fs, nsvca, packages, requires, missing_labels,
                   module, nevras, yaml, stdout, discovered, dumps_called>>

\* the comprehension is exhausted; missing_labels = []
LicensesDone ==
    /\ pc = "licenses"
    /\ i > Len(packages)
    /\ missing_labels' = <<>>
    /\ i' = 1
    /\ pc' = "labels"
    /\ UNCHANGED <<args, fs, nsvca, packages, requires, licenses, module,
                   nevras, yaml, stdout, stderr, exitcode, raised, opened,
                   discovered, dumps_called>>

\* one iteration of the loop over packages that checks the marker
CheckLabel ==
    /\ pc = "labels"
    /\ i <= Len(packages)
    /\ opened' = [opened EXCEPT ![packages[i]] = @ + 1]
    /\ LET r == package_has_modularity_label(packages[i])
       IN  IF r.raises
           THEN Abort(r.exc[1]) /\ UNCHANGED <<missing_labels, stdout, i>>
           ELSE /\ IF ~r.value[1]
                   THEN /\ missing_labels' = Append(missing_labels, packages[i])
                        /\ stdout' = Append(stdout,
                                            LabelMessage(args.force, packages[i]))
                   ELSE UNCHANGED <<missing_labels, stdout>>
                /\ i' = i + 1
                /\ UNCHANGED <<pc, raised, stderr, exitcode>>
    /\ UNCHANGED <<args, fs, nsvca, packages, requires, licenses, module,
                   nevras, yaml, discovered, dumps_called>>

\* main handing Module(...) only the packages that carry the marker
ModulePackages_MarkedOnly(pkgs, missing) ==
    SelectSeq(pkgs, LAMBDA path : path \notin Range(missing))

\* the packages main hands to Module(...)
ModulePackages(pkgs, missing) == pkgs

\* after the loop: raise, or build the Module
BuildModule ==
    /\ pc = "labels"
    /\ i > Len(packages)
    /\ IF missing_labels # <<>> /\ ~args.force
       THEN /\ Abort(Exception("RuntimeError",
                        "All packages need to contain the modularitylabel header.",
                        <<>>))
            /\ UNCHANGED module
       ELSE /\ module' = Present(Module(nsvca[1], Summary, DefaultDescription,
                                        DefaultLicense, licenses,
                                        ModulePackages(packages, missing_labels),
                                        requires))
            /\ pc' = "dumps"
            /\ UNCHANGED <<raised, stderr, exitcode>>
    /\ UNCHANGED <<args, fs, nsvca, packages, requires, licenses, i,
                   missing_labels, nevras, yaml, stdout, opened, discovered,
                   dumps_called>>

\* module.dumps(): the artifacts are added, then the index is rendered, and
\* the schema library either accepts the stream or rejects it
Dumps ==
    /\ pc = "dumps"
    /\ dumps_called' = TRUE
    /\ LET r == package_nevras(module[1].packages)
       IN  IF r.raises
           THEN Abort(r.exc[1]) /\ UNCHANGED <<nevras, yaml>>
           ELSE /\ nevras' = r.value[1]
                /\ IF None \in r.value[1]
                   THEN /\ Abort(Exception("TypeError",
                                   "Argument 1 does not allow None as a value",
                                   <<>>))
                        /\ UNCHANGED yaml
                   ELSE \E accepted \in BOOLEAN :
                          IF accepted
                          THEN /\ yaml' = Present(ModuleStream(module[1],
                                                               r.value[1]))
                               /\ pc' = "print"
                               /\ UNCHANGED <<raised, stderr, exitcode>>
                          ELSE /\ Abort(Exception("GLib.Error",
                                          "the stream failed validation", <<>>))
                               /\ UNCHANGED yaml
    /\ UNCHANGED <<args, fs, nsvca, packages, requires, licenses, i,
                   missing_labels, module, stdout, opened, discovered>>

\* print(yaml); main returns and the process exits with status 0
PrintYaml ==
    /\ pc = "print"
    /\ stdout' = Append(stdout, [label |-> "", text |-> "{yaml}", fmt |-> <<>>])
    /\ exitcode' = 0
    /\ pc' = "exit"
    /\ UNCHANGED <<args, fs, nsvca, packages, requires, licenses, i,
                   missing_labels, module, nevras, yaml, stderr, raised,
                   opened, discovered, dumps_called>>

Next ==
    \/ ParseNsvca
    \/ FindPackages
    \/ FindPackagesInFile
    \/ ParseDependencies
    \/ PackageLicense
    \/ LicensesDone
    \/ CheckLabel
    \/ BuildModule
    \/ Dumps
    \/ PrintYaml

Spec == Init /\ [][Next]_vars

-----------------------------------------------------------------------------
(* Vocabulary of the properties *)

\* the package at path has a header without the modularity marker
LacksMarker(path) ==
    OnDisk(path).kind = "rpm" /\ OnDisk(path).modularitylabel = ""

\* how often path is listed in pkgs
Occurrences(pkgs, path) == Cardinality({k \in DOMAIN pkgs : pkgs[k] = path})

\* the marker loop has run over every package
LabelsChecked ==
    \/ pc = "labels" /\ i > Len(packages)
    \/ module # Absent
    \/ raised # Absent /\ raised[1].type = "RuntimeError"

\* the run ended in the failure of the marker check
ValidationFailed ==
    pc = "exit" /\ raised # Absent /\ raised[1].type = "RuntimeError"

\* the printed lines that report path, under the given label
ReportLines(path, label) ==
    {k \in DOMAIN stdout : stdout[k].fmt = <<path>> /\ stdout[k].label = label}

DocumentPrinted == \E k \in DOMAIN stdout : stdout[k].text = "{yaml}"

MalformedNsvca == Len(split(args.nsvca, ":")) # 5

MalformedDependency ==
    /\ args.requires.given
    /\ \E k \in DOMAIN args.requires.list :
          Len(split(args.requires.list[k], ":")) # 2

NoHeaderRead == \A path \in Paths : opened[path] = 0

-----------------------------------------------------------------------------
(* C1 *)

\* C1: when some input package lacks the modularity marker and --force is
\* not given, Module.dumps is never entered, no document is rendered or
\* printed, and the run ends in a failure (exit status 1).
C1_NoDocumentWithoutForce ==
    (~args.force /\ \E k \in DOMAIN packages : LacksMarker(packages[k]))
        => /\ ~dumps_called
           /\ yaml = Absent
           /\ ~DocumentPrinted
           /\ pc = "exit" => exitcode = 1 /\ raised # Absent

\* a run without --force met an offender and was ended by the marker check
C1_Witness ==
    /\ ValidationFailed
    /\ ~args.force
    /\ \E k \in DOMAIN packages : LacksMarker(packages[k])
    /\ exitcode = 1

-----------------------------------------------------------------------------
(* C2 *)

-----------------------------------------------------------------------------
(* C3 *)

\* C3: with --force and offenders the marker check does not fail the run and
\* each listed offender is reported by exactly one line labelled a warning.
C3_ForcedOffendersWarned ==
    (args.force /\ LabelsChecked /\ missing_labels # <<>>)
        => /\ ~ValidationFailed
           /\ \A k \in DOMAIN missing_labels :
                 Cardinality(ReportLines(missing_labels[k], "WARNING: "))
                     = Occurrences(packages, missing_labels[k])

-----------------------------------------------------------------------------
(* C4 *)

\* C4: a run that ends without error exits with status 0; a run ended by an
\* error exits with status 1 after exactly one "Error: <message>" line on
\* the error stream (stated for runs whose package list could be obtained).
C4_ErrorProtocol ==
    (pc = "exit" /\ fs.readable)
        => IF raised = Absent
           THEN exitcode = 0 /\ stderr = <<>>
           ELSE /\ exitcode = 1
                /\ Len(stderr) = 1
                /\ stderr[1].text = "Error: {0}"

-----------------------------------------------------------------------------
(* C5 *)

\* C5 as claimed: with a malformed N:S:V:C:A or dependency argument neither
\* package discovery nor a header read ever happens (stated for runs whose
\* package list can be obtained).
C5_NothingBeforeFormatError ==
    (fs.readable /\ (MalformedNsvca \/ MalformedDependency))
        => ~discovered /\ NoHeaderRead

\* C5 amended: a malformed N:S:V:C:A fails the run with the input-format
\* error before package discovery and before any header read; a malformed
\* dependency argument is rejected only after package discovery has run, and
\* in such a run no package header is read, no document is rendered, and the
\* run ends in failure.
C5_FormatErrorBeforeHeaders ==
    /\ MalformedNsvca =>
          /\ ~discovered
          /\ NoHeaderRead
          /\ pc = "exit" =>
                /\ raised # Absent
                /\ raised[1].text = "N:S:V:C:A in unexpected format"
                /\ exitcode = 1
    /\ MalformedDependency =>
          /\ NoHeaderRead
          /\ ~dumps_called
          /\ pc \in {"parse_nsvca", "find_packages", "parse_dependencies", "exit"}
          /\ pc = "exit" => raised # Absent /\ exitcode = 1
          /\ (pc = "exit" /\ discovered /\ fs.readable) =>
                /\ raised[1].type = "ValueError"
                /\ raised[1].text =
                     "dictionary update sequence element has length {}; 2 is required"

\* a run with a malformed dependency was rejected after discovery found
\* packages
C5_Witness ==
    /\ pc = "exit"
    /\ MalformedDependency
    /\ discovered
    /\ packages # <<>>
    /\ raised # Absent /\ raised[1].type = "ValueError"

-----------------------------------------------------------------------------
(* C6, C7 *)

\* the well-formed identities of the model: name, optional epoch, version,
\* release, arch
Identities ==
    [name    : {<<"a">>, <<"a", "-", "b">>, <<"c">>},
     epoch   : {EPOCH_NOT_SET, 2},
     version : {<<"1">>},
     release : {<<"3">>},
     arch    : {<<"x">>, <<"s", "r", "c">>}]

\* NAME-[EPOCH:]VERSION-RELEASE.ARCH followed by the package extension
FileNameOf(id) ==
    id.name \o <<"-">>
        \o (IF id.epoch = EPOCH_NOT_SET THEN <<>> ELSE str(id.epoch) \o <<":">>)
        \o id.version \o <<"-">> \o id.release \o <<".">> \o id.arch \o RPM

\* NAME-EPOCH:VERSION-RELEASE.ARCH, epoch 0 when there is none
Canonical(id) ==
    id.name \o <<"-">>
        \o str(IF id.epoch = EPOCH_NOT_SET THEN 0 ELSE id.epoch) \o <<":">>
        \o id.version \o <<"-">> \o id.release \o <<".">> \o id.arch

\* Module.dumps has evaluated package_nevras(self.packages) to a set
NevrasBuilt ==
    dumps_called /\ (raised # Absent => raised[1].type # "ValueError")

\* C6: for every package whose file name is a well-formed identity followed
\* by the extension, the NEVRA computed for it is the canonical string of
\* that identity (the extension is stripped before decomposition).
C6_CanonicalIdentity ==
    NevrasBuilt =>
        \A k \in DOMAIN packages : \A id \in Identities :
            basename(packages[k]) = FileNameOf(id) => Canonical(id) \in nevras

\* the file name of path yields no identity: no extension, or no candidate
NoIdentity(path) ==
    \/ ~endswith(basename(path), RPM)
    \/ get_nevra_possibilities(basename(path)) = {}

\* C7: when Module.dumps resolves a package whose file name yields no
\* identity, the run is aborted by a malformed-identity error (the ValueError
\* of package2nevra), no value for that package reaches the artifact set,
\* and no document is rendered.
C7_NoIdentityFails ==
    (dumps_called /\ \E k \in DOMAIN packages : NoIdentity(packages[k]))
        => /\ raised # Absent /\ raised[1].type = "ValueError"
           /\ None \notin nevras
           /\ yaml = Absent

-----------------------------------------------------------------------------
(* C8 *)

\* the packages discovery yields for the run's command line
InputPackages == IF args.dir THEN find_packages(fs.listing) ELSE fs.listing

\* C8: in every run that renders a document, the packages handed to Module
\* are exactly the discovered input packages and the document's artifacts
\* are the identities computed for all of them, offenders included.
C8_PureGate ==
    yaml # Absent =>
        /\ module[1].packages = InputPackages
        /\ yaml[1].rpm_artifacts =
              {package2nevra(InputPackages[k]).value[1] : k \in DOMAIN InputPackages}
        /\ \A k \in DOMAIN missing_labels :
              package2nevra(missing_labels[k]).value[1] \in yaml[1].rpm_artifacts

\* a document was rendered under --force for packages with an offender and a
\* marked package
C8_Witness ==
    /\ yaml # Absent
    /\ args.force
    /\ missing_labels # <<>>
    /\ Len(missing_labels) < Len(packages)

-----------------------------------------------------------------------------
(* C9 *)

\* pkgs without its k-th entry
Without(pkgs, k) == SubSeq(pkgs, 1, k - 1) \o SubSeq(pkgs, k + 1, Len(pkgs))

\* the entries of pkgs that repeat an earlier entry
Repeats(pkgs) == {k \in DOMAIN pkgs : \E j \in 1..(k - 1) : pkgs[j] = pkgs[k]}

\* C9: a descriptor built from a list that repeats a package has the license
\* set and the artifact identity set of the descriptor built from the list
\* with that repetition removed.
C9_DuplicateIdempotent ==
    \A k \in Repeats(packages) :
        /\ module # Absent =>
              /\ module[1].licenses =
                    {OnDisk(path).license : path \in Range(Without(packages, k))}
              /\ package_nevras(module[1].packages)
                    = package_nevras(Without(module[1].packages, k))
        /\ yaml # Absent =>
              /\ yaml[1].rpm_artifacts = package_nevras(Without(packages, k)).value[1]
              /\ yaml[1].content_licenses =
                    {OnDisk(path).license : path \in Range(Without(packages, k))}

\* a document was rendered from a list that names one package twice and
\* another once
C9_Witness ==
    /\ yaml # Absent
    /\ Len(packages) = 3
    /\ Cardinality(Repeats(packages)) = 1
    /\ Cardinality(yaml[1].rpm_artifacts) = 2

-----------------------------------------------------------------------------
(* C10 *)

\* C10: once the descriptor is built, the header of every listed package has
\* been read exactly once per listing.
C10_HeaderReadOnce ==
    module # Absent =>
        \A path \in Range(packages) :
            opened[path] = Occurrences(packages, path)

====
